---- MODULE Spec2Model ----
(***************************************************************************)
(* Webhook ingestion and donation settlement of the 4planet backend        *)
(* (pkg/payments/cloudpayments.go) over the relational schema of core.sql  *)
(* and internal/models/models.go.                                          *)
(*                                                                         *)
(* Every ProcessWebhook call is a process that advances one database       *)
(* statement at a time; the tables are the shared state.  The unique       *)
(* indexes of the schema are modelled as the insert failures they cause.   *)
(* The donation transaction of createDonation commits in one step: under   *)
(* PostgreSQL a concurrent insert of the same payment_id blocks until the  *)
(* first transaction ends, and the counter UPDATE is an expression update  *)
(* under a row lock, so the committed effects are serial.                  *)
(***************************************************************************)
EXTENDS Integers, Sequences, FiniteSets, Bags, TLC

\* ---------------------------------------------------------------- bounds
\* Total number of webhook deliveries (ProcessWebhook calls) in one run.
MaxDeliveries == 2

\* Payment intents created in one behaviour
MaxIntents == 1

\* Last instant of the clock
MaxTime == 3

\* Rows of the table sessions
MaxSessions == 2

\* Rows of the two token tables together
MaxTokens == 2

\* Longest value of a query parameter, in characters (two longer numerals
\* are added by name)
MaxLen == 3

\* ------------------------------------------------------------- universes
NULL == "NULL"

Procs == {"w1", "w2"}

Users == {"u1", "u2"}

TxIds == {"t1", "t2"}

Secrets == {"", "k"}

SigningKeys == {"k", "x"}

\* Currencies of payments and subscriptions; tree_prices has no row for GBP.
Currencies == {"RUB", "USD", "GBP"}

\* seedTreePrices: price per tree in minor units
PriceRUB == 1900

PriceUSD == 2500

\* seedPayments: amount of the seeded one-time payment, minor units
SeedAmountMinor == 9500

\* Amounts (major units) a subscription charge payload may carry
ChargeAmounts == {0, 10, 95}

PaymentStatusPending == "pending"

PaymentStatusSucceeded == "succeeded"

PaymentStatusRefunded == "refunded"

VARIABLES
    secret,            \* CloudPaymentsService.secret
    payments,          \* table payments: sequence of rows, id = position
    subscriptions,     \* table subscriptions
    treePrices,        \* table tree_prices: currency -> price_minor
    donations,         \* table donations: sequence of rows
    users,             \* table users: auth_user_id -> counters
    userAchievements,  \* table user_achievements: set of <<user, code>>
    webhookEvents,     \* table webhook_events: sequence of rows
    pc,                \* position of each ProcessWebhook call
    payload,           \* its parsed WebhookPayload
    signatureOK,       \* webhookEvent.SignatureOK
    payment,           \* its local models.Payment
    subscription,      \* its local models.Subscription
    treesCount,        \* its local treesCount
    err,               \* error returned by processWebhookEvent
    result,            \* what ProcessWebhook returned
    request,           \* its parameters payload and signature, while in use
    pre,               \* history: the tables when the latest call started
    deliveries,        \* history: number of calls started
    incLog,            \* history: counter changes committed, with the change seen
    settledOK,         \* history: payments whose settlement call returned nil
    httpResponse,      \* POST /webhooks/:provider: the latest request and answer
    ach,               \* position and locals of each achievements call
    awardLog,          \* history: bag of the user_achievements rows inserted
    evaluated,         \* history: per user, least totalTrees of a call that returned nil
    intents,           \* history: the payment intent requests served
    pagination,        \* the latest ExtractPagination call: query and result
    sessions,          \* table sessions: sequence of rows, id = position
    now,               \* time.Now() of the server, in ticks
    authCalls,         \* position and locals of each auth handler call
    authLog,           \* history: the latest RequireAuth check and what it saw
    tokens,            \* tables email_verification_tokens, password_reset_tokens
    tokenCalls,        \* position and locals of each token verification call
    tokenLog           \* history: bag of the tokens whose verification succeeded

tables == <<payments, subscriptions, treePrices, donations, users,
            userAchievements, webhookEvents>>

locals == <<pc, payload, signatureOK, payment, subscription, treesCount,
            err, result, request>>

history == <<pre, deliveries, incLog, settledOK>>

\* State that no step of ProcessWebhook reads or writes.
authState == <<sessions, now, authCalls, authLog>>

tokenState == <<tokens, tokenCalls, tokenLog>>

further == <<intents, pagination, authState, tokenState>>

elsewhere == <<httpResponse, ach, awardLog, evaluated, further>>

vars == <<secret, tables, locals, history, elsewhere>>

\* ------------------------------------------------------------ empty rows
NoPayload ==
    [valid_json |-> FALSE, Type |-> NULL, TransactionId |-> NULL,
     Status |-> NULL, Amount |-> 0, Currency |-> NULL,
     SubscriptionId |-> NULL]

NoPayment ==
    [id |-> 0, auth_user_id |-> NULL, currency |-> NULL, amount_minor |-> 0,
     meta_project_id |-> NULL]

NoSubscription ==
    [id |-> 0, auth_user_id |-> NULL, currency |-> NULL]

NoPre ==
    [payments |-> <<>>, donations |-> <<>>, webhookEvents |-> <<>>,
     users |-> [u \in Users |-> [total_trees |-> 0, donations_count |-> 0]]]

\* No request was answered yet.
NoResponse == [provider |-> NULL, body |-> NoPayload, status |-> 0]

\* An achievements call that is not running.
IdleCall ==
    [pc |-> "idle", op |-> NULL, user |-> NULL, total_trees |-> 0,
     repeat |-> FALSE, todo |-> <<>>, granted |-> {}, result |-> NULL]

\* No request with pagination parameters has arrived yet.
NoPagination ==
    [pc |-> "idle", limit |-> <<>>, has_limit |-> FALSE, offset |-> <<>>,
     has_offset |-> FALSE, Limit |-> 0, Offset |-> 0]

\* An auth handler call that is not running.
IdleAuthCall == [pc |-> "idle", op |-> NULL, user |-> NULL, cookie |-> 0]

\* No row of the table sessions
NoSession ==
    [auth_user_id |-> NULL, expires_at |-> 0, revoked |-> FALSE,
     deleted |-> FALSE]

\* No RequireAuth check was made yet.
NoAuthCheck ==
    [cookie |-> 0, row |-> NoSession, at |-> 0, status |-> 0,
     handler |-> FALSE]

\* A token verification call that is not running.
IdleTokenCall == [pc |-> "idle", token |-> 0, started |-> 0]

\* ------------------------------------------------------- request bodies
\* Raw request bodies: JSON documents of the WebhookPayload shape, and one
\* body that json.Unmarshal rejects.
PaymentBodies ==
    {[valid_json |-> TRUE, Type |-> "Payment", TransactionId |-> t,
      Status |-> s, Amount |-> 95, Currency |-> "RUB",
      SubscriptionId |-> NULL] :
        t \in TxIds, s \in {"Succeeded", "Failed"}}

\* Charges of transaction t2: of subscription sub1 with either amount, of
\* sub2 (currency without tree price) and of sub9 (no such subscription).
ChargeBodies ==
    {[valid_json |-> TRUE, Type |-> "SubscriptionCharge", TransactionId |-> "t2",
      Status |-> "Succeeded", Amount |-> a, Currency |-> "USD",
      SubscriptionId |-> "sub1"] :
        a \in ChargeAmounts}
    \cup
    {[valid_json |-> TRUE, Type |-> "SubscriptionCharge", TransactionId |-> "t2",
      Status |-> "Succeeded", Amount |-> 95,
      Currency |-> IF s = "sub2" THEN "GBP" ELSE "USD",
      SubscriptionId |-> s] :
        s \in {"sub2", "sub9"}}
    \cup
    {[valid_json |-> TRUE, Type |-> "SubscriptionCharge", TransactionId |-> "t2",
      Status |-> "Failed", Amount |-> 95, Currency |-> "USD",
      SubscriptionId |-> "sub1"]}

RefundBodies ==
    {[valid_json |-> TRUE, Type |-> "Refund", TransactionId |-> t,
      Status |-> "Completed", Amount |-> 95, Currency |-> "RUB",
      SubscriptionId |-> NULL] :
        t \in TxIds}

OtherBodies ==
    {[valid_json |-> TRUE, Type |-> "Check", TransactionId |-> "t1",
      Status |-> "Succeeded", Amount |-> 95, Currency |-> "RUB",
      SubscriptionId |-> NULL],
     [valid_json |-> FALSE, Type |-> NULL, TransactionId |-> NULL,
      Status |-> NULL, Amount |-> 0, Currency |-> NULL,
      SubscriptionId |-> NULL]}

Bodies == PaymentBodies \cup ChargeBodies \cup RefundBodies \cup OtherBodies

\* ------------------------------------------------------------- helpers
\* HMAC-SHA256 as an abstract injective function of key and body.
MAC(key, body) == <<key, body>>

\* Variant: the comparison covers the key only, whatever body was signed.
verifySignatureKeyOnly(body, signature) == signature[1] = secret

verifySignature(body, signature) == signature = MAC(secret, body)

\* Variant: a signature that does not verify never ends the call.
SignatureRejectedNever(body, signature) == FALSE

\* ProcessWebhook: "Verify signature if secret is configured"
SignatureRejected(body, signature) ==
    secret # "" /\ ~verifySignature(body, signature)

\* A body as the provider signed it, when the body delivered was altered on
\* the way.
Altered(body) == [body EXCEPT !.Amount = @ + 1]

\* Signature headers a delivery of body may carry: made over the body
\* delivered with either key, or made with a configured key over another body.
Signatures(body) ==
    {MAC(k, body) : k \in SigningKeys}
    \cup {MAC(k, Altered(body)) : k \in Secrets \ {""}}

\* The parameters of a call that is not running or no longer reads them.
NoRequest == [body |-> NoPayload, signature |-> MAC(NULL, NoPayload)]

RECURSIVE SumTrees(_)
SumTrees(s) ==
    IF s = <<>> THEN 0 ELSE Head(s).trees_count + SumTrees(Tail(s))

\* Rows of a table (a sequence) that satisfy a condition, as positions.
PaymentIdsByProviderId(tbl, t) ==
    {i \in DOMAIN tbl : tbl[i].provider_payment_id = t}

\* db.Where("provider_payment_id = ?", ...).First(&payment): the row with
\* the smallest primary key, 0 when there is none.
FirstPaymentId(tbl, t) ==
    IF PaymentIdsByProviderId(tbl, t) = {} THEN 0
    ELSE CHOOSE i \in PaymentIdsByProviderId(tbl, t) :
            \A j \in PaymentIdsByProviderId(tbl, t) : i <= j

FirstSubscriptionId(t) ==
    IF \E i \in DOMAIN subscriptions :
            subscriptions[i].provider_subscription_id = t
    THEN CHOOSE i \in DOMAIN subscriptions :
            /\ subscriptions[i].provider_subscription_id = t
            /\ \A j \in DOMAIN subscriptions :
                subscriptions[j].provider_subscription_id = t => i <= j
    ELSE 0

DonationsOfPayment(tbl, pid) == {j \in DOMAIN tbl : tbl[j].payment_id = pid}

DonationsOfUser(tbl, u) == SelectSeq(tbl, LAMBDA d : d.auth_user_id = u)

\* webhook_events.event_idempotency is UNIQUE
EventUniqueViolation(t) ==
    \E k \in DOMAIN webhookEvents : webhookEvents[k].event_idempotency = t

\* payments.provider_payment_id is UNIQUE
PaymentUniqueViolation(t) ==
    \E i \in DOMAIN payments : payments[i].provider_payment_id = t

\* Variant: donations.payment_id without its unique index.
DonationUniqueViolationDropped(pid) == FALSE

\* donations.payment_id is UNIQUE
DonationUniqueViolation(pid) ==
    \E j \in DOMAIN donations : donations[j].payment_id = pid

\* Variant: total_trees assigned the new count instead of the expression
\* total_trees + ?.
UpdateUserCountersAssign(tbl, u, n) ==
    [tbl EXCEPT ![u] = [total_trees |-> n,
                        donations_count |-> @.donations_count + 1]]

\* UPDATE users SET total_trees = total_trees + ?, donations_count =
\* donations_count + 1 WHERE auth_user_id = ?
UpdateUserCounters(tbl, u, n) ==
    [tbl EXCEPT ![u] = [total_trees |-> @.total_trees + n,
                        donations_count |-> @.donations_count + 1]]

\* Variant: a started tree counts as a tree.
TreesCountRoundedUp(amountMinor, priceMinor) ==
    (amountMinor + priceMinor - 1) \div priceMinor

\* createDonation: int(payment.AmountMinor / treePrice.PriceMinor), integer
\* division of two non-negative int64 values.
TreesCount(amountMinor, priceMinor) == amountMinor \div priceMinor

\* The row ProcessWebhook builds for this delivery
NewWebhookEvent(w, ok, error) ==
    [event_type |-> payload[w].Type,
     event_idempotency |-> payload[w].TransactionId,
     raw_payload |-> payload[w],
     signature_ok |-> signatureOK[w],
     processed_ok |-> ok,
     processing_error |-> error]

IsSettlementEvent(p) ==
    /\ p.Type \in {"Payment", "SubscriptionCharge"}
    /\ p.Status = "Succeeded"

\* ---------------------------------------------------------------- Init
\* The database after seeding (cmd/seed): users, tree prices, one
\* subscription known to the provider, and the payment of transaction t1,
\* either still pending or seeded as succeeded together with its donation
\* and the counters updateUserStats derives from it.
SeededPayment(owner, cur, status) ==
    [provider_payment_id |-> "t1", auth_user_id |-> owner,
     subscription_id |-> 0, amount_minor |-> SeedAmountMinor,
     currency |-> cur, status |-> status, meta_project_id |-> NULL]

Init ==
    /\ secret \in Secrets
    /\ treePrices = [c \in {"RUB", "USD"} |->
                        IF c = "RUB" THEN PriceRUB ELSE PriceUSD]
    /\ subscriptions = << [provider_subscription_id |-> "sub1",
                           auth_user_id |-> "u1", currency |-> "USD"],
                          [provider_subscription_id |-> "sub2",
                           auth_user_id |-> "u1", currency |-> "GBP"] >>
    /\ \/ /\ \E oc \in {<<"u1", "RUB">>, <<NULL, "RUB">>, <<"u1", "GBP">>} :
                payments = << SeededPayment(oc[1], oc[2], PaymentStatusPending) >>
          /\ donations = <<>>
          /\ users = [u \in Users |-> [total_trees |-> 0, donations_count |-> 0]]
          /\ userAchievements = {}
       \/ /\ payments = << SeededPayment("u1", "RUB", PaymentStatusSucceeded) >>
          /\ donations = << [auth_user_id |-> "u1", payment_id |-> 1,
                             project_id |-> NULL,
                             referral_user_id |-> NULL,
                             trees_count |-> SeedAmountMinor \div PriceRUB] >>
          /\ users = [u \in Users |->
                        IF u = "u1"
                        THEN [total_trees |-> SeedAmountMinor \div PriceRUB,
                              donations_count |-> 1]
                        ELSE [total_trees |-> 0, donations_count |-> 0]]
          /\ userAchievements = {<<"u1", "first_tree">>}
    /\ webhookEvents = <<>>
    /\ pc = [w \in Procs |-> "idle"]
    /\ payload = [w \in Procs |-> NoPayload]
    /\ signatureOK = [w \in Procs |-> FALSE]
    /\ payment = [w \in Procs |-> NoPayment]
    /\ subscription = [w \in Procs |-> NoSubscription]
    /\ treesCount = [w \in Procs |-> 0]
    /\ err = [w \in Procs |-> NULL]
    /\ result = [w \in Procs |-> NULL]
    /\ request = [w \in Procs |-> NoRequest]
    /\ pre = NoPre
    /\ deliveries = 0
    /\ incLog = <<>>
    /\ settledOK = {}
    /\ httpResponse = NoResponse
    /\ ach = [a \in Procs |-> IdleCall]
    /\ awardLog = SetToBag(userAchievements)
    /\ evaluated = [u \in Users |-> {}]
    /\ intents = <<>>
    /\ pagination = NoPagination
    /\ sessions = <<>>
    /\ now = 0
    /\ authCalls = [p \in Procs |-> IdleAuthCall]
    /\ authLog = NoAuthCheck
    /\ tokens = <<>>
    /\ tokenCalls = [p \in Procs |-> IdleTokenCall]
    /\ tokenLog = EmptyBag

\* One seeded database, for the specifications that do not read it.
InitIdle ==
    /\ Init
    /\ secret = CHOOSE k \in Secrets : TRUE
    /\ payments[1].auth_user_id = "u1"
    /\ payments[1].currency = "RUB"
    /\ donations = <<>>

\* -------------------------------------------------------------- actions
\* ProcessWebhook, entry: signature gate, json.Unmarshal, construction of
\* the WebhookEvent value.  No database statement yet.
Start(w, body, signature) ==
    /\ pc[w] = "idle"
    /\ deliveries < MaxDeliveries
    /\ deliveries' = deliveries + 1
    /\ request' = [request EXCEPT ![w] =
                        [body |-> body, signature |-> signature]]
    /\ pre' = [payments |-> payments, donations |-> donations,
               webhookEvents |-> webhookEvents, users |-> users]
    /\ IF SignatureRejected(body, signature)
       THEN /\ pc' = [pc EXCEPT ![w] = "done"]
            /\ result' = [result EXCEPT ![w] = "invalid signature"]
            /\ UNCHANGED <<payload, signatureOK>>
       ELSE IF ~body.valid_json
       THEN /\ pc' = [pc EXCEPT ![w] = "done"]
            /\ result' = [result EXCEPT ![w] = "failed to parse webhook payload"]
            /\ UNCHANGED <<payload, signatureOK>>
       ELSE /\ pc' = [pc EXCEPT ![w] = "checkDup"]
            /\ payload' = [payload EXCEPT ![w] = body]
            /\ signatureOK' = [signatureOK EXCEPT ![w] =
                    secret = "" \/ verifySignature(body, signature)]
            /\ UNCHANGED result
    /\ UNCHANGED <<secret, elsewhere,
                   tables, payment, subscription, treesCount, err,
                   incLog, settledOK>>

\* "Check for duplicate events": SELECT ... WHERE event_idempotency = ?
\* The parameters are not read again after the event value was built.
CheckDuplicate(w) ==
    /\ pc[w] = "checkDup"
    /\ request' = [request EXCEPT ![w] = NoRequest]
    /\ pc' = [pc EXCEPT ![w] =
                IF EventUniqueViolation(payload[w].TransactionId)
                THEN "logDup" ELSE "process"]
    /\ UNCHANGED <<secret, elsewhere, tables, payload, signatureOK, payment,
                   subscription, treesCount, err, result, history>>

\* s.db.Create(webhookEvent): the insert fails on the unique index of
\* event_idempotency, otherwise the row is appended.
InsertWebhookEvent(w, ok, error, onConflict, onSuccess) ==
    /\ IF EventUniqueViolation(payload[w].TransactionId)
       THEN /\ result' = [result EXCEPT ![w] = onConflict]
            /\ UNCHANGED webhookEvents
       ELSE /\ result' = [result EXCEPT ![w] = onSuccess]
            /\ webhookEvents' =
                    Append(webhookEvents, NewWebhookEvent(w, ok, error))
    /\ pc' = [pc EXCEPT ![w] = "done"]
    /\ UNCHANGED <<secret, elsewhere, request,
                   payments, subscriptions, treePrices, donations,
                   users, userAchievements, payload, signatureOK, payment,
                   subscription, treesCount, err, pre, deliveries, incLog>>

\* duplicate branch: ProcessedOK = true, Create, return nil
LogDuplicate(w) ==
    /\ pc[w] = "logDup"
    /\ InsertWebhookEvent(w, TRUE, NULL,
            "failed to create duplicate webhook event", "ok")
    /\ UNCHANGED settledOK

\* settlement returned an error: ProcessingError = err, Create, return err
LogFailure(w) ==
    /\ pc[w] = "logErr"
    /\ InsertWebhookEvent(w, FALSE, err[w],
            "failed to create webhook event", "failed to process webhook")
    /\ UNCHANGED settledOK

\* settlement returned nil: ProcessedOK = true, Create, return nil
LogSuccess(w) ==
    /\ pc[w] = "logOK"
    /\ InsertWebhookEvent(w, TRUE, NULL,
            "failed to create webhook event", "ok")
    /\ settledOK' =
        IF /\ ~EventUniqueViolation(payload[w].TransactionId)
           /\ IsSettlementEvent(payload[w])
        THEN settledOK \cup {payment[w].id}
        ELSE settledOK

\* processPaymentEvent up to the payment lookup
ProcessPaymentLookup(w) ==
    /\ pc[w] = "process"
    /\ payload[w].Type = "Payment"
    /\ LET pid == FirstPaymentId(payments, payload[w].TransactionId) IN
        IF payload[w].Status # "Succeeded"
        THEN /\ pc' = [pc EXCEPT ![w] = "logOK"]
             /\ UNCHANGED <<payment, err>>
        ELSE IF pid = 0
        THEN /\ pc' = [pc EXCEPT ![w] = "logErr"]
             /\ err' = [err EXCEPT ![w] = "payment not found"]
             /\ UNCHANGED payment
        ELSE /\ pc' = [pc EXCEPT ![w] = "payUpdate"]
             /\ payment' = [payment EXCEPT ![w] =
                    [id |-> pid,
                     auth_user_id |-> payments[pid].auth_user_id,
                     currency |-> payments[pid].currency,
                     amount_minor |-> payments[pid].amount_minor,
                     meta_project_id |-> payments[pid].meta_project_id]]
             /\ UNCHANGED err
    /\ UNCHANGED <<secret, elsewhere, request,
                   tables, payload, signatureOK, subscription,
                   treesCount, result, history>>

\* Variant: the settlement goes on to the donation without the UPDATE.
UpdatePaymentSucceededSkipped(w) ==
    /\ pc[w] = "payUpdate"
    /\ pc' = [pc EXCEPT ![w] = "price"]
    /\ UNCHANGED <<secret, elsewhere, request, tables, payload, signatureOK,
                   payment, subscription, treesCount, err, result, history>>

\* processPaymentEvent: UPDATE payments SET status = 'succeeded', meta =
\* {"webhook_processed": true} WHERE id = ?; the new meta, which has no
\* project_id, is what createDonation then reads.
UpdatePaymentSucceeded(w) ==
    /\ pc[w] = "payUpdate"
    /\ payments' = [payments EXCEPT
                        ![payment[w].id].status = PaymentStatusSucceeded,
                        ![payment[w].id].meta_project_id = NULL]
    /\ payment' = [payment EXCEPT ![w].meta_project_id = NULL]
    /\ pc' = [pc EXCEPT ![w] = "price"]
    /\ UNCHANGED <<secret, elsewhere, request,
                   subscriptions, treePrices, donations, users,
                   userAchievements, webhookEvents, payload, signatureOK,
                   subscription, treesCount, err, result, history>>

\* processSubscriptionChargeEvent up to the subscription lookup
ProcessSubscriptionLookup(w) ==
    /\ pc[w] = "process"
    /\ payload[w].Type = "SubscriptionCharge"
    /\ LET sid == FirstSubscriptionId(payload[w].SubscriptionId) IN
        IF payload[w].Status # "Succeeded"
        THEN /\ pc' = [pc EXCEPT ![w] = "logOK"]
             /\ UNCHANGED <<subscription, err>>
        ELSE IF sid = 0
        THEN /\ pc' = [pc EXCEPT ![w] = "logErr"]
             /\ err' = [err EXCEPT ![w] = "subscription not found"]
             /\ UNCHANGED subscription
        ELSE /\ pc' = [pc EXCEPT ![w] = "chargeCreate"]
             /\ subscription' = [subscription EXCEPT ![w] =
                    [id |-> sid,
                     auth_user_id |-> subscriptions[sid].auth_user_id,
                     currency |-> subscriptions[sid].currency]]
             /\ UNCHANGED err
    /\ UNCHANGED <<secret, elsewhere, request,
                   tables, payload, signatureOK, payment,
                   treesCount, result, history>>

\* processSubscriptionChargeEvent: INSERT of the payment of this charge
CreateChargePayment(w) ==
    /\ pc[w] = "chargeCreate"
    /\ IF PaymentUniqueViolation(payload[w].TransactionId)
       THEN /\ pc' = [pc EXCEPT ![w] = "logErr"]
            /\ err' = [err EXCEPT ![w] = "failed to create payment"]
            /\ UNCHANGED <<payments, payment>>
       ELSE /\ payments' = Append(payments,
                [provider_payment_id |-> payload[w].TransactionId,
                 auth_user_id |-> subscription[w].auth_user_id,
                 subscription_id |-> subscription[w].id,
                 amount_minor |-> payload[w].Amount * 100,
                 currency |-> subscription[w].currency,
                 status |-> PaymentStatusSucceeded,
                 meta_project_id |-> NULL])
            /\ payment' = [payment EXCEPT ![w] =
                [id |-> Len(payments) + 1,
                 auth_user_id |-> subscription[w].auth_user_id,
                 currency |-> subscription[w].currency,
                 amount_minor |-> payload[w].Amount * 100,
                 meta_project_id |-> NULL]]
            /\ pc' = [pc EXCEPT ![w] = "price"]
            /\ UNCHANGED err
    /\ UNCHANGED <<secret, elsewhere, request,
                   subscriptions, treePrices, donations, users,
                   userAchievements, webhookEvents, payload, signatureOK,
                   subscription, treesCount, result, history>>

\* processRefundEvent: the payment lookup
ProcessRefundLookup(w) ==
    /\ pc[w] = "process"
    /\ payload[w].Type = "Refund"
    /\ LET pid == FirstPaymentId(payments, payload[w].TransactionId) IN
        IF pid = 0
        THEN /\ pc' = [pc EXCEPT ![w] = "logErr"]
             /\ err' = [err EXCEPT ![w] = "payment not found"]
             /\ UNCHANGED payment
        ELSE /\ pc' = [pc EXCEPT ![w] = "refundUpdate"]
             /\ payment' = [payment EXCEPT ![w] =
                    [id |-> pid,
                     auth_user_id |-> payments[pid].auth_user_id,
                     currency |-> payments[pid].currency,
                     amount_minor |-> payments[pid].amount_minor,
                     meta_project_id |-> payments[pid].meta_project_id]]
             /\ UNCHANGED err
    /\ UNCHANGED <<secret, elsewhere, request,
                   tables, payload, signatureOK, subscription,
                   treesCount, result, history>>

\* Variant: the refund also takes the trees of the payment's donation back
\* from the owner's counters.
UpdatePaymentRefundedClawback(w) ==
    /\ pc[w] = "refundUpdate"
    /\ payments' = [payments EXCEPT
                        ![payment[w].id].status = PaymentStatusRefunded,
                        ![payment[w].id].meta_project_id = NULL]
    /\ users' =
        IF payment[w].auth_user_id \in Users
        THEN [users EXCEPT ![payment[w].auth_user_id] =
                [total_trees |-> @.total_trees
                    - SumTrees(SelectSeq(donations,
                        LAMBDA d : d.payment_id = payment[w].id)),
                 donations_count |-> @.donations_count
                    - Cardinality(DonationsOfPayment(donations, payment[w].id))]]
        ELSE users
    /\ pc' = [pc EXCEPT ![w] = "logOK"]
    /\ UNCHANGED <<secret, elsewhere, request,
                   subscriptions, treePrices, donations,
                   userAchievements, webhookEvents, payload, signatureOK,
                   payment, subscription, treesCount, err, result, history>>

\* processRefundEvent: UPDATE payments SET status = 'refunded', meta =
\* {"refund_reason": ..., "webhook_processed": true} WHERE id = ?
UpdatePaymentRefunded(w) ==
    /\ pc[w] = "refundUpdate"
    /\ payments' = [payments EXCEPT
                        ![payment[w].id].status = PaymentStatusRefunded,
                        ![payment[w].id].meta_project_id = NULL]
    /\ pc' = [pc EXCEPT ![w] = "logOK"]
    /\ UNCHANGED <<secret, elsewhere, request,
                   subscriptions, treePrices, donations, users,
                   userAchievements, webhookEvents, payload, signatureOK,
                   payment, subscription, treesCount, err, result, history>>

\* processWebhookEvent, default case of the switch
ProcessUnknownType(w) ==
    /\ pc[w] = "process"
    /\ payload[w].Type \notin {"Payment", "SubscriptionCharge", "Refund"}
    /\ pc' = [pc EXCEPT ![w] = "logErr"]
    /\ err' = [err EXCEPT ![w] = "unknown webhook type"]
    /\ UNCHANGED <<secret, elsewhere, request,
                   tables, payload, signatureOK, payment,
                   subscription, treesCount, result, history>>

\* Variant: a missing tree price ends the settlement without error and
\* without donation.
LookupTreePriceSkipsDonation(w) ==
    /\ pc[w] = "price"
    /\ IF payment[w].currency \notin DOMAIN treePrices
       THEN /\ pc' = [pc EXCEPT ![w] = "logOK"]
            /\ UNCHANGED <<treesCount, err>>
       ELSE /\ pc' = [pc EXCEPT ![w] = "txn"]
            /\ treesCount' = [treesCount EXCEPT ![w] =
                    TreesCount(payment[w].amount_minor,
                               treePrices[payment[w].currency])]
            /\ UNCHANGED err
    /\ UNCHANGED <<secret, elsewhere, request,
                   tables, payload, signatureOK, payment,
                   subscription, result, history>>

\* createDonation: tree price lookup and treesCount
LookupTreePrice(w) ==
    /\ pc[w] = "price"
    /\ IF payment[w].currency \notin DOMAIN treePrices
       THEN /\ pc' = [pc EXCEPT ![w] = "logErr"]
            /\ err' = [err EXCEPT ![w] = "tree price not found"]
            /\ UNCHANGED treesCount
       ELSE /\ pc' = [pc EXCEPT ![w] = "txn"]
            /\ treesCount' = [treesCount EXCEPT ![w] =
                    TreesCount(payment[w].amount_minor,
                               treePrices[payment[w].currency])]
            /\ UNCHANGED err
    /\ UNCHANGED <<secret, elsewhere, request,
                   tables, payload, signatureOK, payment,
                   subscription, result, history>>

\* createDonation: the transaction (donation insert, counter update).
\* *payment.AuthUserID of a payment without owner is a nil dereference:
\* the transaction rolls back and the panic leaves ProcessWebhook.
CreateDonationTxn(w) ==
    /\ pc[w] = "txn"
    /\ IF payment[w].auth_user_id = NULL
       THEN /\ pc' = [pc EXCEPT ![w] = "done"]
            /\ result' = [result EXCEPT ![w] = "panic"]
            /\ UNCHANGED <<donations, users, err, incLog>>
       ELSE IF DonationUniqueViolation(payment[w].id)
       THEN /\ pc' = [pc EXCEPT ![w] = "logErr"]
            /\ err' = [err EXCEPT ![w] = "failed to create donation"]
            /\ UNCHANGED <<donations, users, result, incLog>>
       ELSE /\ donations' = Append(donations,
                [auth_user_id |-> payment[w].auth_user_id,
                 payment_id |-> payment[w].id,
                 project_id |-> payment[w].meta_project_id,
                 referral_user_id |-> NULL,
                 trees_count |-> treesCount[w]])
            /\ users' = UpdateUserCounters(users, payment[w].auth_user_id,
                                           treesCount[w])
            /\ incLog' = Append(incLog,
                [payment_id |-> payment[w].id,
                 auth_user_id |-> payment[w].auth_user_id,
                 trees_delta |->
                    users'[payment[w].auth_user_id].total_trees
                    - users[payment[w].auth_user_id].total_trees,
                 count_delta |->
                    users'[payment[w].auth_user_id].donations_count
                    - users[payment[w].auth_user_id].donations_count])
            /\ pc' = [pc EXCEPT ![w] = "logOK"]
            /\ UNCHANGED <<err, result>>
    /\ UNCHANGED <<secret, elsewhere, request,
                   payments, subscriptions, treePrices,
                   userAchievements, webhookEvents, payload, signatureOK,
                   payment, subscription, treesCount, pre, deliveries,
                   settledOK>>

\* ProcessWebhook has returned (or panicked); the request ends.
Return(w) ==
    /\ pc[w] = "done"
    /\ pc' = [pc EXCEPT ![w] = "idle"]
    /\ payload' = [payload EXCEPT ![w] = NoPayload]
    /\ signatureOK' = [signatureOK EXCEPT ![w] = FALSE]
    /\ payment' = [payment EXCEPT ![w] = NoPayment]
    /\ subscription' = [subscription EXCEPT ![w] = NoSubscription]
    /\ treesCount' = [treesCount EXCEPT ![w] = 0]
    /\ err' = [err EXCEPT ![w] = NULL]
    /\ result' = [result EXCEPT ![w] = NULL]
    /\ request' = [request EXCEPT ![w] = NoRequest]
    /\ UNCHANGED <<secret, elsewhere, tables, history>>

\* The steps of a call that is under way.
Continue(w) ==
    \/ CheckDuplicate(w)
    \/ LogDuplicate(w)
    \/ LogFailure(w)
    \/ LogSuccess(w)
    \/ ProcessPaymentLookup(w)
    \/ UpdatePaymentSucceeded(w)
    \/ ProcessSubscriptionLookup(w)
    \/ CreateChargePayment(w)
    \/ ProcessRefundLookup(w)
    \/ UpdatePaymentRefunded(w)
    \/ ProcessUnknownType(w)
    \/ LookupTreePrice(w)
    \/ CreateDonationTxn(w)
    \/ Return(w)

\* Deliveries are independent concurrent requests.
Next ==
    \E w \in Procs :
        \/ \E body \in Bodies :
                \E signature \in Signatures(body) : Start(w, body, signature)
        \/ Continue(w)

Spec == Init /\ [][Next]_vars

\* Deliveries one after another: a call starts when no other is running.
StartAlone(w, body, signature) ==
    /\ \A v \in Procs \ {w} : pc[v] = "idle"
    /\ Start(w, body, signature)

NextSeq ==
    \E w \in Procs :
        \/ \E body \in Bodies :
                \E signature \in Signatures(body) :
                    StartAlone(w, body, signature)
        \/ Continue(w)

SpecSeq == Init /\ [][NextSeq]_vars

\* ------------------------------------------- deliveries and a new price
\* Arguments of UpdatePrice: the currency that has no tree price, a price
UpdatePriceArgs == {<<"GBP", PriceUSD>>}

\* prices.Service.UpdatePrice: s.db.Save of the row of the currency (insert,
\* or update when the currency has a row)
UpdatePrice(currency, priceMinor) ==
    /\ treePrices' = [c \in DOMAIN treePrices \cup {currency} |->
                        IF c = currency THEN priceMinor ELSE treePrices[c]]
    /\ UNCHANGED <<secret, payments, subscriptions, donations, users,
                   userAchievements, webhookEvents, locals, history,
                   elsewhere>>

NextRetry ==
    \/ \E a \in UpdatePriceArgs : UpdatePrice(a[1], a[2])
    \/ \E w \in Procs :
        \/ \E body \in Bodies :
                \E signature \in Signatures(body) :
                    StartAlone(w, body, signature)
        \/ Continue(w)

SpecRetry == Init /\ [][NextRetry]_vars

\* ------------------------------------------- subscription charges alone
\* Charges of sub1 (a USD subscription) whose payload names another currency.
ChargeBodiesOtherCurrency ==
    {[b EXCEPT !.Currency = "RUB"] :
        b \in {c \in ChargeBodies : c.SubscriptionId = "sub1"}}

\* The steps a SubscriptionCharge delivery can take.
ContinueCharge(w) ==
    \/ CheckDuplicate(w)
    \/ LogDuplicate(w)
    \/ LogFailure(w)
    \/ LogSuccess(w)
    \/ ProcessSubscriptionLookup(w)
    \/ CreateChargePayment(w)
    \/ LookupTreePrice(w)
    \/ CreateDonationTxn(w)
    \/ Return(w)

NextCharge ==
    \E w \in Procs :
        \/ \E body \in ChargeBodies \cup ChargeBodiesOtherCurrency :
                \E signature \in Signatures(body) :
                    StartAlone(w, body, signature)
        \/ ContinueCharge(w)

SpecCharge == Init /\ [][NextCharge]_vars

\* ------------------------------------------------------ payment intents
\* Projects that exist; their ids are UUIDs.
Projects == {"P1"}

\* project_id of the request body: absent, not a UUID, the id of a project
ProjectArgs == {NULL, "bad", "P1"}

\* referral_user_id of the request body: absent or a user
ReferralArgs == {NULL, "u2"}

\* amount_minor of the request body
IntentAmounts == {SeedAmountMinor}

\* The transaction id the provider gives the payment of an intent; the
\* service learns it from the webhook only.
IntentTransactionId == "t2"

\* handler: uuid.Parse(*req.ProjectID), nil when absent or not a UUID
ParseProjectID(arg) == IF arg \in Projects THEN arg ELSE NULL

\* POST /v1/payments/intents: the handler binds the body and
\* CreatePaymentIntent inserts the pending payment. provider_payment_id is
\* not set, and the referral of the request is stored nowhere.
CreatePaymentIntent(authUserID, amountMinor, projectArg, referralArg) ==
    /\ Len(intents) < MaxIntents
    /\ payments' = Append(payments,
            [provider_payment_id |-> NULL,
             auth_user_id |-> authUserID,
             subscription_id |-> 0,
             amount_minor |-> amountMinor,
             currency |-> "RUB",
             status |-> PaymentStatusPending,
             meta_project_id |-> ParseProjectID(projectArg)])
    /\ intents' = Append(intents,
            [payment_id |-> Len(payments) + 1,
             project_id |-> projectArg,
             referral_user_id |-> referralArg,
             transaction_id |-> IntentTransactionId])
    /\ UNCHANGED <<secret, subscriptions, treePrices, donations, users,
                   userAchievements, webhookEvents, locals, history,
                   httpResponse, ach, awardLog, evaluated, pagination,
                   authState, tokenState>>

\* GetReferralStats: COUNT(*) and SUM(trees_count) of the donations whose
\* referral_user_id is the user
GetReferralStats(authUserID) ==
    [TotalReferrals |->
        Len(SelectSeq(donations,
                LAMBDA d : d.referral_user_id = authUserID)),
     TotalTreesPlanted |->
        SumTrees(SelectSeq(donations,
                LAMBDA d : d.referral_user_id = authUserID))]

\* The steps a Payment delivery can take.
ContinuePayment(w) ==
    \/ CheckDuplicate(w)
    \/ LogDuplicate(w)
    \/ LogFailure(w)
    \/ LogSuccess(w)
    \/ ProcessPaymentLookup(w)
    \/ UpdatePaymentSucceeded(w)
    \/ LookupTreePrice(w)
    \/ CreateDonationTxn(w)
    \/ Return(w)

NextIntent ==
    \/ \E u \in Users, a \in IntentAmounts, p \in ProjectArgs,
          r \in ReferralArgs : CreatePaymentIntent(u, a, p, r)
    \/ \E w \in Procs :
        \/ \E body \in PaymentBodies :
                \E signature \in Signatures(body) :
                    StartAlone(w, body, signature)
        \/ ContinuePayment(w)

SpecIntent == Init /\ [][NextIntent]_vars

\* ----------------------------------------------------------- pagination
DefaultLimit == 20

MaxLimit == 100

\* Query values are strings, modelled as sequences of characters.
Digits == {"0", "1", "2", "3", "4", "5", "6", "7", "8", "9"}

DigitValue ==
    [c \in Digits |->
        CASE c = "0" -> 0 [] c = "1" -> 1 [] c = "2" -> 2 [] c = "3" -> 3
          [] c = "4" -> 4 [] c = "5" -> 5 [] c = "6" -> 6 [] c = "7" -> 7
          [] c = "8" -> 8 [] c = "9" -> 9]

\* Characters of the query values tried
QueryChars == {"-", "+", "0", "1", "a"}

\* A numeral of twenty digits: above the largest int (2^63 - 1, nineteen
\* digits), alone and with a minus sign
LongNumeral == [i \in 1..20 |-> "1"]

QueryValues ==
    UNION {[1..k -> QueryChars] : k \in 0..MaxLen}
    \cup {LongNumeral, <<"-">> \o LongNumeral}

\* c.DefaultQuery(key, def): the value of the key, def when the key is absent
DefaultQuery(has, value, def) == IF has THEN value ELSE def

\* strconv.Itoa for the two defaults passed to DefaultQuery
ItoaDefaultLimit == <<"2", "0">>

RECURSIVE StripZeros(_)
StripZeros(ds) ==
    IF ds # <<>> /\ Head(ds) = "0" THEN StripZeros(Tail(ds)) ELSE ds

RECURSIVE DecimalValue(_)
DecimalValue(ds) ==
    IF ds = <<>> THEN 0
    ELSE DecimalValue(SubSeq(ds, 1, Len(ds) - 1)) * 10
            + DigitValue[ds[Len(ds)]]

\* Digits of 2^63 - 1, the largest int on a 64-bit build
MaxIntDigits == 19

\* strconv.Atoi: an optional sign and at least one decimal digit; a value
\* outside the int range is the error ErrRange. Values of MaxIntDigits
\* digits are not among the inputs tried, so the range test is on the
\* number of digits.
Atoi(str) ==
    LET signed == str # <<>> /\ Head(str) \in {"-", "+"}
        ds == IF signed THEN Tail(str) ELSE str
    IN  IF ds = <<>> \/ \E i \in DOMAIN ds : ds[i] \notin Digits
        THEN [err |-> TRUE, n |-> 0]
        ELSE IF Len(StripZeros(ds)) > MaxIntDigits
        THEN [err |-> TRUE, n |-> 0]
        ELSE [err |-> FALSE,
              n |-> IF signed /\ Head(str) = "-"
                    THEN 0 - DecimalValue(StripZeros(ds))
                    ELSE DecimalValue(StripZeros(ds))]

\* Variant: zero passes as a limit.
LimitOfAllowsZero(r) ==
    LET limit == IF r.err \/ r.n < 0 THEN DefaultLimit ELSE r.n
    IN  IF limit > MaxLimit THEN MaxLimit ELSE limit

\* ExtractPagination: the two ifs on limit
LimitOf(r) ==
    LET limit == IF r.err \/ r.n < 1 THEN DefaultLimit ELSE r.n
    IN  IF limit > MaxLimit THEN MaxLimit ELSE limit

\* ExtractPagination: the if on offset
OffsetOf(r) == IF r.err \/ r.n < 0 THEN 0 ELSE r.n

\* A request arrives, with or without the two query parameters.
ReceiveQuery ==
    /\ pagination.pc = "idle"
    /\ \E hasLimit \in BOOLEAN, hasOffset \in BOOLEAN :
        \E limit \in QueryValues, offset \in QueryValues :
            pagination' =
                [pc |-> "received",
                 limit |-> IF hasLimit THEN limit ELSE <<>>,
                 has_limit |-> hasLimit,
                 offset |-> IF hasOffset THEN offset ELSE <<>>,
                 has_offset |-> hasOffset,
                 Limit |-> 0, Offset |-> 0]
    /\ UNCHANGED <<secret, tables, locals, history, httpResponse, ach,
                   awardLog, evaluated, intents, authState, tokenState>>

ExtractPagination ==
    /\ pagination.pc = "received"
    /\ LET limitStr == DefaultQuery(pagination.has_limit, pagination.limit,
                                    ItoaDefaultLimit)
           offsetStr == DefaultQuery(pagination.has_offset,
                                     pagination.offset, <<"0">>)
       IN pagination' = [pagination EXCEPT
                !.pc = "returned",
                !.Limit = LimitOf(Atoi(limitStr)),
                !.Offset = OffsetOf(Atoi(offsetStr))]
    /\ UNCHANGED <<secret, tables, locals, history, httpResponse, ach,
                   awardLog, evaluated, intents, authState, tokenState>>

NextPage == ReceiveQuery \/ ExtractPagination

SpecPage == InitIdle /\ [][NextPage]_vars

\* -------------------------------------------------------------- sessions
\* config.App.SessionTTL, in ticks of the clock
SessionTTL == 2

StatusUnauthorized == 401

\* Session ids a cookie may carry: those of the rows there can be
SessionIds == 1..MaxSessions

\* Routes behind RequireAuth: /v1/auth/logout and any other
ProtectedRoutes == {"logout", "me"}

\* time.Now() moves on.
Tick ==
    /\ now < MaxTime
    /\ now' = now + 1
    /\ UNCHANGED <<secret, tables, locals, history, httpResponse, ach,
                   awardLog, evaluated, intents, pagination, sessions,
                   authCalls, authLog, tokenState>>

\* Variant: the query does not look at revoked_at.
GetUserBySessionIgnoresRevoked(sessionID) ==
    IF /\ sessionID \in DOMAIN sessions
       /\ ~sessions[sessionID].deleted
       /\ sessions[sessionID].expires_at > now
    THEN sessions[sessionID].auth_user_id
    ELSE NULL

\* GetUserBySession: the user of the row with this id, expires_at > now and
\* revoked_at IS NULL; NULL for the error of First
GetUserBySession(sessionID) ==
    IF /\ sessionID \in DOMAIN sessions
       /\ ~sessions[sessionID].deleted
       /\ sessions[sessionID].expires_at > now
       /\ ~sessions[sessionID].revoked
    THEN sessions[sessionID].auth_user_id
    ELSE NULL

\* RevokeSession: UPDATE sessions SET revoked_at = now WHERE id = ?
RevokeSession(tbl, sessionID) ==
    [i \in DOMAIN tbl |->
        IF i = sessionID /\ ~tbl[i].deleted
        THEN [tbl[i] EXCEPT !.revoked = TRUE] ELSE tbl[i]]

\* RevokeAllUserSessions: UPDATE sessions SET revoked_at = now
\* WHERE auth_user_id = ?
RevokeAllUserSessions(tbl, authUserID) ==
    [i \in DOMAIN tbl |->
        IF tbl[i].auth_user_id = authUserID /\ ~tbl[i].deleted
        THEN [tbl[i] EXCEPT !.revoked = TRUE] ELSE tbl[i]]

\* RequireAuth for a request with the cookie on a protected route: 401 and
\* Abort when GetUserBySession fails, else no status is written and the
\* handler runs (Logout goes on to revoke the session of the cookie).
RequireAuth(p, cookie, route) ==
    /\ authCalls[p].pc = "idle"
    /\ LET user == GetUserBySession(cookie) IN
        /\ authLog' =
                [cookie |-> cookie,
                 row |-> IF cookie \in DOMAIN sessions
                         THEN sessions[cookie] ELSE NoSession,
                 at |-> now,
                 status |-> IF user = NULL THEN StatusUnauthorized ELSE 0,
                 handler |-> user # NULL]
        /\ authCalls' =
                IF user # NULL /\ route = "logout"
                THEN [authCalls EXCEPT ![p] =
                        [pc |-> "revoke", op |-> "Logout", user |-> user,
                         cookie |-> cookie]]
                ELSE authCalls
    /\ UNCHANGED <<secret, tables, locals, history, httpResponse, ach,
                   awardLog, evaluated, intents, pagination, sessions, now,
                   tokenState>>

\* Logout: RevokeSession of the cookie's session
LogoutRevokeSession(p) ==
    /\ authCalls[p].pc = "revoke"
    /\ sessions' = RevokeSession(sessions, authCalls[p].cookie)
    /\ authCalls' = [authCalls EXCEPT ![p] = IdleAuthCall]
    /\ UNCHANGED <<secret, tables, locals, history, httpResponse, ach,
                   awardLog, evaluated, intents, pagination, now, authLog,
                   tokenState>>

\* Login with the right password: RevokeAllUserSessions of the user
LoginRevokeAll(p, authUserID) ==
    /\ authCalls[p].pc = "idle"
    /\ Len(sessions)
        + Cardinality({q \in Procs : authCalls[q].pc = "create"})
            < MaxSessions
    /\ sessions' = RevokeAllUserSessions(sessions, authUserID)
    /\ authCalls' = [authCalls EXCEPT ![p] =
            [pc |-> "create", op |-> "Login", user |-> authUserID,
             cookie |-> 0]]
    /\ UNCHANGED <<secret, tables, locals, history, httpResponse, ach,
                   awardLog, evaluated, intents, pagination, now, authLog,
                   tokenState>>

\* Login: CreateSession with expiresAt = time.Now() + SessionTTL
LoginCreateSession(p) ==
    /\ authCalls[p].pc = "create"
    /\ sessions' = Append(sessions,
            [auth_user_id |-> authCalls[p].user,
             expires_at |-> now + SessionTTL,
             revoked |-> FALSE, deleted |-> FALSE])
    /\ authCalls' = [authCalls EXCEPT ![p] = IdleAuthCall]
    /\ UNCHANGED <<secret, tables, locals, history, httpResponse, ach,
                   awardLog, evaluated, intents, pagination, now, authLog,
                   tokenState>>

\* ResetPassword with a valid token of the user: UpdateUserPassword
ResetUpdatePassword(p, authUserID) ==
    /\ authCalls[p].pc = "idle"
    /\ authCalls' = [authCalls EXCEPT ![p] =
            [pc |-> "resetRevoke", op |-> "ResetPassword",
             user |-> authUserID, cookie |-> 0]]
    /\ UNCHANGED <<secret, tables, locals, history, httpResponse, ach,
                   awardLog, evaluated, intents, pagination, sessions, now,
                   authLog, tokenState>>

\* ResetPassword: RevokeAllUserSessions of the token's user
ResetRevokeAll(p) ==
    /\ authCalls[p].pc = "resetRevoke"
    /\ sessions' = RevokeAllUserSessions(sessions, authCalls[p].user)
    /\ authCalls' = [authCalls EXCEPT ![p] = IdleAuthCall]
    /\ UNCHANGED <<secret, tables, locals, history, httpResponse, ach,
                   awardLog, evaluated, intents, pagination, now, authLog,
                   tokenState>>

\* CleanupExpiredTokens: DELETE ... WHERE expires_at < now on the two token
\* tables and on sessions
CleanupExpiredTokens ==
    /\ sessions' = [i \in DOMAIN sessions |->
            IF sessions[i].expires_at < now
            THEN [sessions[i] EXCEPT !.deleted = TRUE] ELSE sessions[i]]
    /\ tokens' = [i \in DOMAIN tokens |->
            IF tokens[i].expires_at < now
            THEN [tokens[i] EXCEPT !.deleted = TRUE] ELSE tokens[i]]
    /\ UNCHANGED <<secret, tables, locals, history, httpResponse, ach,
                   awardLog, evaluated, intents, pagination, now, authCalls,
                   authLog, tokenCalls, tokenLog>>

\* ---------------------------------------------------------------- tokens
\* Lifetime of an email verification token (24 hours) and of a password
\* reset token (1 hour), in ticks of the clock
EmailTokenTTL == 2

ResetTokenTTL == 1

TokenKinds == {"email_verification", "password_reset"}

\* Token strings a request may carry: those of the rows there can be
TokenStrings == 1..MaxTokens

\* CreateEmailVerificationToken / CreatePasswordResetToken, called by the
\* handlers with expiresAt = time.Now() + lifetime
CreateToken(kind, authUserID) ==
    /\ Len(tokens) < MaxTokens
    /\ tokens' = Append(tokens,
            [kind |-> kind,
             auth_user_id |-> authUserID,
             expires_at |-> now + (IF kind = "email_verification"
                                   THEN EmailTokenTTL ELSE ResetTokenTTL),
             used |-> FALSE,
             deleted |-> FALSE])
    /\ UNCHANGED <<secret, tables, locals, history, httpResponse, ach,
                   awardLog, evaluated, intents, pagination, authState,
                   tokenCalls, tokenLog>>

\* The SELECT of both verification functions: the row of the table with
\* this token, expires_at > now and used_at IS NULL
TokenFound(kind, tokenStr) ==
    /\ tokenStr \in DOMAIN tokens
    /\ tokens[tokenStr].kind = kind
    /\ ~tokens[tokenStr].deleted
    /\ tokens[tokenStr].expires_at > now
    /\ ~tokens[tokenStr].used

\* VerifyEmailToken up to its SELECT; on an error of First it returns at
\* once and nothing has changed.
VerifyEmailToken(p, tokenStr) ==
    /\ tokenCalls[p].pc = "idle"
    /\ TokenFound("email_verification", tokenStr)
    /\ tokenCalls' = [tokenCalls EXCEPT ![p] =
            [pc |-> "mark", token |-> tokenStr, started |-> now]]
    /\ UNCHANGED <<secret, tables, locals, history, httpResponse, ach,
                   awardLog, evaluated, intents, pagination, authState,
                   tokens, tokenLog>>

\* VerifyPasswordResetToken up to its SELECT, the same code on the table
\* password_reset_tokens
VerifyPasswordResetToken(p, tokenStr) ==
    /\ tokenCalls[p].pc = "idle"
    /\ TokenFound("password_reset", tokenStr)
    /\ tokenCalls' = [tokenCalls EXCEPT ![p] =
            [pc |-> "mark", token |-> tokenStr, started |-> now]]
    /\ UNCHANGED <<secret, tables, locals, history, httpResponse, ach,
                   awardLog, evaluated, intents, pagination, authState,
                   tokens, tokenLog>>

\* Both verification functions: UPDATE ... SET used_at = now WHERE id = ?,
\* then return the token (success)
MarkTokenUsed(p) ==
    /\ tokenCalls[p].pc = "mark"
    /\ tokens' = [tokens EXCEPT ![tokenCalls[p].token].used = TRUE]
    /\ tokenLog' = tokenLog (+) SetToBag({tokenCalls[p].token})
    /\ tokenCalls' = [tokenCalls EXCEPT ![p] = IdleTokenCall]
    /\ UNCHANGED <<secret, tables, locals, history, httpResponse, ach,
                   awardLog, evaluated, intents, pagination, authState>>

NextTokens ==
    \/ Tick
    \/ CleanupExpiredTokens
    \/ \E kind \in TokenKinds, u \in Users : CreateToken(kind, u)
    \/ \E p \in Procs :
        \/ \E t \in TokenStrings : VerifyEmailToken(p, t)
        \/ \E t \in TokenStrings : VerifyPasswordResetToken(p, t)
        \/ MarkTokenUsed(p)

SpecTokens == InitIdle /\ [][NextTokens]_vars

NextAuth ==
    \/ Tick
    \/ CleanupExpiredTokens
    \/ \E p \in Procs :
        \/ \E c \in SessionIds, route \in ProtectedRoutes :
                RequireAuth(p, c, route)
        \/ LogoutRevokeSession(p)
        \/ \E u \in Users : LoginRevokeAll(p, u)
        \/ LoginCreateSession(p)
        \/ \E u \in Users : ResetUpdatePassword(p, u)
        \/ ResetRevokeAll(p)

SpecAuth == InitIdle /\ [][NextAuth]_vars

\* ------------------------------------------------ the webhook route
Providers == {"cloudpayments", "stripe"}

StatusOK == 200

StatusBadRequest == 400

\* POST /webhooks/:provider as registered in main: the handler reads the
\* path parameter only and answers; it calls nothing.
WebhookRoute(provider, body) ==
    /\ httpResponse' =
            [provider |-> provider, body |-> body,
             status |-> IF provider = "cloudpayments"
                        THEN StatusOK ELSE StatusBadRequest]
    /\ UNCHANGED <<secret, tables, locals, history, ach, awardLog, evaluated,
                   further>>

NextHttp ==
    \E provider \in Providers, body \in Bodies : WebhookRoute(provider, body)

SpecHttp == Init /\ [][NextHttp]_vars

\* ------------------------------------------------------- achievements
\* Table achievements as seeded, in primary-key order; threshold_trees is
\* NULL for the achievement that is not tree-based.
Achievements ==
    << [code |-> "first_tree", has_threshold |-> TRUE, threshold_trees |-> 1],
       [code |-> "tree_planter", has_threshold |-> TRUE, threshold_trees |-> 10],
       [code |-> "forest_guardian", has_threshold |-> TRUE,
        threshold_trees |-> 100],
       [code |-> "earth_saver", has_threshold |-> TRUE,
        threshold_trees |-> 1000],
       [code |-> "volunteer", has_threshold |-> FALSE, threshold_trees |-> 0] >>

\* Values of the argument achievementCode of calls of AwardAchievement
AwardCodes == {"volunteer"}

\* Values of the argument totalTrees
TotalTreesArgs == {0, 5, 10}

\* Variant: the threshold itself does not qualify.
QualifyingAchievementsBelow(totalTrees) ==
    SelectSeq(Achievements,
        LAMBDA r : r.has_threshold /\ r.threshold_trees < totalTrees)

\* Where("threshold_trees IS NOT NULL AND threshold_trees <= ?", totalTrees)
QualifyingAchievements(totalTrees) ==
    SelectSeq(Achievements,
        LAMBDA r : r.has_threshold /\ r.threshold_trees <= totalTrees)

\* The call moves on to the next qualifying achievement, or returns nil.
AfterAward(call, granted) ==
    [call EXCEPT !.todo = Tail(@),
                 !.granted = granted,
                 !.pc = IF Tail(call.todo) = <<>> THEN "done" ELSE "check",
                 !.result = IF Tail(call.todo) = <<>> THEN "ok" ELSE @]

\* CheckAndAwardTreeBasedAchievements, entry: the catalog query
CheckAndAwardTreeBasedAchievements(a, authUserID, totalTrees) ==
    /\ ach[a].pc = "idle"
    /\ ach' = [ach EXCEPT ![a] =
            [pc |-> IF QualifyingAchievements(totalTrees) = <<>>
                    THEN "done" ELSE "check",
             op |-> "CheckAndAward",
             user |-> authUserID,
             total_trees |-> totalTrees,
             repeat |-> \E n \in evaluated[authUserID] : n <= totalTrees,
             todo |-> QualifyingAchievements(totalTrees),
             granted |-> {},
             result |-> IF QualifyingAchievements(totalTrees) = <<>>
                        THEN "ok" ELSE NULL]]
    /\ UNCHANGED <<secret, tables, locals, history, httpResponse, awardLog,
                   evaluated, further>>

\* AwardAchievement called on its own for one achievement of the catalog
AwardAchievement(a, authUserID, achievementCode) ==
    /\ ach[a].pc = "idle"
    /\ ach' = [ach EXCEPT ![a] =
            [pc |-> "check",
             op |-> "Award",
             user |-> authUserID,
             total_trees |-> 0,
             repeat |-> FALSE,
             todo |-> SelectSeq(Achievements,
                        LAMBDA r : r.code = achievementCode),
             granted |-> {},
             result |-> NULL]]
    /\ UNCHANGED <<secret, tables, locals, history, httpResponse, awardLog,
                   evaluated, further>>

\* AwardAchievement: "Check if user already has this achievement"
AwardCheckExisting(a) ==
    /\ ach[a].pc = "check"
    /\ ach' = [ach EXCEPT ![a] =
            IF <<ach[a].user, Head(ach[a].todo).code>> \in userAchievements
            THEN AfterAward(ach[a], ach[a].granted)
            ELSE [ach[a] EXCEPT !.pc = "insert"]]
    /\ UNCHANGED <<secret, tables, locals, history, httpResponse, awardLog,
                   evaluated, further>>

\* AwardAchievement: the achievement lookup by code and the insert of the
\* user_achievements row, which its primary key (auth_user_id,
\* achievement_id) rejects when the row exists by now.
AwardInsert(a) ==
    /\ ach[a].pc = "insert"
    /\ IF <<ach[a].user, Head(ach[a].todo).code>> \in userAchievements
       THEN /\ ach' = [ach EXCEPT ![a].pc = "done",
                                  ![a].result = "duplicate key"]
            /\ UNCHANGED <<userAchievements, awardLog>>
       ELSE /\ userAchievements' = userAchievements
                    \cup {<<ach[a].user, Head(ach[a].todo).code>>}
            /\ awardLog' = awardLog
                    (+) SetToBag({<<ach[a].user, Head(ach[a].todo).code>>})
            /\ ach' = [ach EXCEPT ![a] =
                    AfterAward(ach[a],
                        ach[a].granted \cup {Head(ach[a].todo).code})]
    /\ UNCHANGED <<secret, payments, subscriptions, treePrices, donations,
                   users, webhookEvents, locals, history, httpResponse,
                   evaluated, further>>

\* The call has returned.
AwardReturn(a) ==
    /\ ach[a].pc = "done"
    /\ ach' = [ach EXCEPT ![a] = IdleCall]
    /\ evaluated' =
        IF ach[a].op = "CheckAndAward" /\ ach[a].result = "ok"
        THEN [evaluated EXCEPT ![ach[a].user] =
                {n \in @ \cup {ach[a].total_trees} :
                    \A m \in @ \cup {ach[a].total_trees} : n <= m}]
        ELSE evaluated
    /\ UNCHANGED <<secret, tables, locals, history, httpResponse, awardLog,
                   further>>

\* Calls of the achievements service, concurrent with one another.
NextAch ==
    \E a \in Procs :
        \/ \E u \in Users, n \in TotalTreesArgs :
                CheckAndAwardTreeBasedAchievements(a, u, n)
        \/ \E u \in Users, c \in AwardCodes : AwardAchievement(a, u, c)
        \/ AwardCheckExisting(a)
        \/ AwardInsert(a)
        \/ AwardReturn(a)

\* The achievements calls start from the seeded database; the webhook secret
\* and the seeded payment's owner and currency play no part in them.
InitAch ==
    /\ Init
    /\ secret = CHOOSE k \in Secrets : TRUE
    /\ payments[1].auth_user_id = "u1"
    /\ payments[1].currency = "RUB"

SpecAch == InitAch /\ [][NextAch]_vars

TypeOK ==
    /\ pc \in [Procs -> {"idle", "checkDup", "logDup", "logErr", "logOK",
                         "process", "payUpdate", "chargeCreate",
                         "refundUpdate", "price", "txn", "done"}]
    /\ deliveries \in 0..MaxDeliveries

\* ---------------------------------------------------------------- claims
TxOf(w) == payload[w].TransactionId

IncsOfPayment(pid) == {k \in DOMAIN incLog : incLog[k].payment_id = pid}

Unchanged(w) ==
    /\ payments = pre.payments
    /\ donations = pre.donations
    /\ users = pre.users

\* C1: once a Succeeded Payment or SubscriptionCharge event has settled a
\* payment, however many further deliveries of it follow (one after another
\* or interleaved), that payment has exactly one Donation and the donor's
\* counters were incremented exactly once, by that Donation's trees_count
\* and by 1.
C1_ExactlyOnce ==
    \A pid \in DOMAIN payments :
        IncsOfPayment(pid) # {} =>
            /\ Cardinality(DonationsOfPayment(donations, pid)) = 1
            /\ Cardinality(IncsOfPayment(pid)) = 1
            /\ \A k \in IncsOfPayment(pid),
                  j \in DonationsOfPayment(donations, pid) :
                    /\ incLog[k].auth_user_id = donations[j].auth_user_id
                    /\ incLog[k].trees_delta = donations[j].trees_count
                    /\ incLog[k].count_delta = 1

\* A repeat delivery of an event that settled has completed.
C1_Witness ==
    \E w \in Procs :
        /\ pc[w] = "done"
        /\ IsSettlementEvent(payload[w])
        /\ result[w] = "failed to create duplicate webhook event"
        /\ \E k \in DOMAIN webhookEvents :
            /\ webhookEvents[k].raw_payload = payload[w]
            /\ webhookEvents[k].processed_ok
        /\ IncsOfPayment(FirstPaymentId(payments, TxOf(w))) # {}

\* C2: two concurrent ProcessWebhook calls carrying the same TransactionId
\* are never both past the duplicate check (admitted to settlement).
Admitted(w) ==
    pc[w] \in {"process", "payUpdate", "chargeCreate", "refundUpdate",
               "price", "txn", "logErr", "logOK"}

C2_AtMostOneAdmitted ==
    \A w1, w2 \in Procs :
        (w1 # w2 /\ Admitted(w1) /\ Admitted(w2)) => TxOf(w1) # TxOf(w2)

\* C3: every user's total_trees is the sum of trees_count over the user's
\* Donation rows and donations_count is the number of those rows.
C3_CountersMatchDonations ==
    \A u \in Users :
        /\ users[u].total_trees = SumTrees(DonationsOfUser(donations, u))
        /\ users[u].donations_count = Len(DonationsOfUser(donations, u))

\* Two settlements for the same user have committed.
C3_Witness ==
    \E k1, k2 \in DOMAIN incLog :
        /\ k1 # k2
        /\ incLog[k1].auth_user_id = incLog[k2].auth_user_id
        /\ users[incLog[k1].auth_user_id].total_trees > 0
        /\ users[incLog[k1].auth_user_id].donations_count >= 2

\* C4: when donation creation fails in the settlement of a Succeeded
\* Payment or SubscriptionCharge event, the payments, donations and user
\* counters are what they were before the delivery.
C4_FailedDonationChangesNothing ==
    \A w \in Procs :
        (/\ pc[w] = "done"
         /\ IsSettlementEvent(payload[w])
         /\ err[w] \in {"tree price not found", "failed to create donation"})
        => Unchanged(w)

\* C5: a delivery whose TransactionId already has a WebhookEvent row returns
\* success, appends a row with processed_ok = true and changes no payment,
\* donation or counter.
C5_DuplicateIsLoggedSuccess ==
    \A w \in Procs :
        (/\ pc[w] = "done"
         /\ payload[w].valid_json
         /\ \E k \in DOMAIN pre.webhookEvents :
                pre.webhookEvents[k].event_idempotency = TxOf(w))
        => /\ result[w] = "ok"
           /\ Len(webhookEvents) = Len(pre.webhookEvents) + 1
           /\ webhookEvents[Len(webhookEvents)].event_idempotency = TxOf(w)
           /\ webhookEvents[Len(webhookEvents)].processed_ok
           /\ Unchanged(w)

\* C6: no payment has two Donations, every payment whose settlement call
\* returned success has exactly one, and no step changes or removes an
\* existing Donation row.
C6_OneDonationPerSettledPayment ==
    /\ [](\A pid \in DOMAIN payments :
            /\ Cardinality(DonationsOfPayment(donations, pid)) <= 1
            /\ pid \in settledOK =>
                Cardinality(DonationsOfPayment(donations, pid)) = 1)
    /\ [][\A j \in DOMAIN donations :
            j \in DOMAIN donations' /\ donations'[j] = donations[j]]_vars

\* A settlement call has returned success and its donation is there.
C6_Witness ==
    \E w \in Procs :
        /\ pc[w] = "done"
        /\ result[w] = "ok"
        /\ IsSettlementEvent(payload[w])
        /\ payment[w].id \in settledOK
        /\ DonationsOfPayment(donations, payment[w].id) # {}

\* C7: a Refund delivered for a payment that is succeeded leaves that
\* payment refunded.
C7_RefundOfSucceededPayment ==
    \A w \in Procs :
        (/\ pc[w] = "done"
         /\ payload[w].Type = "Refund"
         /\ FirstPaymentId(pre.payments, TxOf(w)) # 0
         /\ pre.payments[FirstPaymentId(pre.payments, TxOf(w))].status
                = PaymentStatusSucceeded)
        => payments[FirstPaymentId(pre.payments, TxOf(w))].status
                = PaymentStatusRefunded

\* C8: every step of the processing of a Refund event leaves all Donation
\* rows, all user counters and all UserAchievement grants as they are,
\* adds no payment and changes no payment other than the matched one.
C8_RefundTouchesOnlyPayment ==
    [][\A w \in Procs :
        (pc'[w] # pc[w] /\ payload[w].Type = "Refund") =>
            /\ donations' = donations
            /\ users' = users
            /\ userAchievements' = userAchievements
            /\ Len(payments') = Len(payments)
            /\ \A i \in DOMAIN payments :
                i # FirstPaymentId(payments, TxOf(w)) =>
                    payments'[i] = payments[i]]_vars

\* A refund has been applied to a payment that has a donation.
C8_Witness ==
    \E w \in Procs :
        /\ pc[w] = "done"
        /\ payload[w].Type = "Refund"
        /\ result[w] = "ok"
        /\ payments[payment[w].id].status = PaymentStatusRefunded
        /\ DonationsOfPayment(donations, payment[w].id) # {}
        /\ users[payment[w].auth_user_id].total_trees > 0
        /\ userAchievements # {}

\* C9: a Payment or SubscriptionCharge event whose Status is not Succeeded
\* returns success and changes no payment, donation or counter.
C9_NonSucceededIsNoOpSuccess ==
    \A w \in Procs :
        (/\ pc[w] = "done"
         /\ payload[w].Type \in {"Payment", "SubscriptionCharge"}
         /\ payload[w].Status # "Succeeded")
        => (result[w] = "ok" /\ Unchanged(w))

\* C10: after a non-Succeeded Payment event was acknowledged for a
\* transaction whose payment is pending (owner and tree price present), a
\* later Succeeded Payment event for it makes the payment succeeded and
\* creates its Donation.
AcknowledgedNonSucceeded(t) ==
    \E k \in DOMAIN pre.webhookEvents :
        /\ pre.webhookEvents[k].event_idempotency = t
        /\ pre.webhookEvents[k].event_type = "Payment"
        /\ pre.webhookEvents[k].raw_payload.Status # "Succeeded"
        /\ pre.webhookEvents[k].processed_ok

C10_LaterSucceededSettles ==
    \A w \in Procs :
        (/\ pc[w] = "done"
         /\ payload[w].Type = "Payment"
         /\ payload[w].Status = "Succeeded"
         /\ AcknowledgedNonSucceeded(TxOf(w))
         /\ FirstPaymentId(pre.payments, TxOf(w)) # 0
         /\ LET p == pre.payments[FirstPaymentId(pre.payments, TxOf(w))] IN
                /\ p.status = PaymentStatusPending
                /\ p.auth_user_id # NULL
                /\ p.currency \in DOMAIN treePrices)
        => /\ payments[FirstPaymentId(pre.payments, TxOf(w))].status
                = PaymentStatusSucceeded
           /\ DonationsOfPayment(donations,
                    FirstPaymentId(pre.payments, TxOf(w))) # {}

\* C11: with a non-empty secret a delivery passes the signature check
\* exactly when the signature it carries is MAC(secret, body) of the body
\* delivered, so a signature made with another key or over another body is
\* rejected; with the empty secret no delivery is rejected and every
\* delivery that parses counts as verified.
C11_SignatureVerification ==
    \A w \in Procs :
        request[w] # NoRequest =>
            /\ secret # "" =>
                ((result[w] = "invalid signature")
                    <=> (request[w].signature # MAC(secret, request[w].body)))
            /\ secret = "" => result[w] # "invalid signature"
            /\ pc[w] = "checkDup" => signatureOK[w]

\* With a secret configured, one delivery signed with that secret over
\* another body was rejected while a correctly signed one was let through.
C11_Witness ==
    /\ secret # ""
    /\ \E w1, w2 \in Procs :
        /\ pc[w1] = "done"
        /\ result[w1] = "invalid signature"
        /\ request[w1].signature[1] = secret
        /\ request[w1].signature[2] # request[w1].body
        /\ pc[w2] = "checkDup"
        /\ request[w2].signature = MAC(secret, request[w2].body)
        /\ signatureOK[w2]

\* C12: with a non-empty secret, a delivery whose signature does not verify
\* ends at the signature check: the call goes straight to its return with
\* no table changed by any of its steps, and no call that is at or past
\* the duplicate check carries an unverified signature.
Unverified(r) == r # NoRequest /\ r.signature # MAC(secret, r.body)

C12_UnverifiedNeverSettles ==
    /\ [](secret # "" =>
            \A w \in Procs :
                /\ pc[w] \notin {"idle", "done"} => signatureOK[w]
                /\ pc[w] = "checkDup" => ~Unverified(request[w]))
    /\ [][secret # "" =>
            \A w \in Procs :
                /\ (pc[w] = "idle" /\ Unverified(request'[w]))
                    => (pc'[w] = "done" /\ tables' = tables)
                /\ (Unverified(request[w]) /\ pc'[w] # pc[w])
                    => (pc'[w] = "idle" /\ tables' = tables)]_vars

\* A Succeeded Payment event for a pending payment was delivered with a
\* signature made with another key and the call has ended.
C12_Witness ==
    /\ secret # ""
    /\ \E w \in Procs :
        /\ pc[w] = "done"
        /\ result[w] = "invalid signature"
        /\ request[w].body.Type = "Payment"
        /\ IsSettlementEvent(request[w].body)
        /\ request[w].signature[1] # secret
        /\ FirstPaymentId(payments, request[w].body.TransactionId) # 0
        /\ payments[FirstPaymentId(payments,
                request[w].body.TransactionId)].status = PaymentStatusPending
        /\ donations = <<>>
        /\ webhookEvents = <<>>

\* C13: a delivery whose signature failed verification has a WebhookEvent
\* row with signature_ok = false once its call has ended.
C13_UnverifiedIsRecorded ==
    \A w \in Procs :
        (/\ pc[w] = "done"
         /\ secret # ""
         /\ Unverified(request[w])
         /\ request[w].body.valid_json)
        => \E k \in DOMAIN webhookEvents :
            /\ webhookEvents[k].event_idempotency
                    = request[w].body.TransactionId
            /\ ~webhookEvents[k].signature_ok

\* C14: when the settlement of an admitted delivery has failed (payment not
\* found, subscription not found, tree price not found, donation insert
\* failed), ProcessWebhook returns an error and a WebhookEvent row of that
\* delivery exists with processed_ok = false and the error as
\* processing_error.
SettlementErrors ==
    {"payment not found", "subscription not found", "tree price not found",
     "failed to create donation"}

C14_SettlementFailureRecorded ==
    \A w \in Procs :
        (pc[w] = "done" /\ err[w] \in SettlementErrors)
        => /\ result[w] \notin {NULL, "ok"}
           /\ \E k \in DOMAIN webhookEvents :
                /\ webhookEvents[k].raw_payload = payload[w]
                /\ ~webhookEvents[k].processed_ok
                /\ webhookEvents[k].processing_error = err[w]

\* C15: a delivery whose Type is none of Payment, SubscriptionCharge and
\* Refund gets a WebhookEvent row with processing_error set, changes no
\* payment, donation or counter, and ProcessWebhook returns success.
C15_UnknownTypeIsSuccess ==
    \A w \in Procs :
        (/\ pc[w] = "done"
         /\ payload[w].valid_json
         /\ payload[w].Type \notin {"Payment", "SubscriptionCharge", "Refund"})
        => /\ result[w] = "ok"
           /\ Unchanged(w)
           /\ \E k \in DOMAIN webhookEvents :
                /\ webhookEvents[k].raw_payload = payload[w]
                /\ webhookEvents[k].processing_error # NULL

\* C16: the webhook endpoint answers 200 to an accepted cloudpayments
\* delivery and with a status outside 200..299 to one whose settlement
\* fails with payment or subscription not found, tree price not found or a
\* payment without owner.
SettlementFails(body) ==
    LET pid == FirstPaymentId(payments, body.TransactionId)
        sid == FirstSubscriptionId(body.SubscriptionId)
    IN  \/ /\ body.Type = "Refund"
           /\ pid = 0
        \/ /\ body.Type = "Payment"
           /\ body.Status = "Succeeded"
           /\ \/ pid = 0
              \/ /\ pid # 0
                 /\ \/ payments[pid].currency \notin DOMAIN treePrices
                    \/ payments[pid].auth_user_id = NULL
        \/ /\ body.Type = "SubscriptionCharge"
           /\ body.Status = "Succeeded"
           /\ \/ sid = 0
              \/ /\ sid # 0
                 /\ subscriptions[sid].currency \notin DOMAIN treePrices

C16_EndpointStatus ==
    (httpResponse.provider = "cloudpayments" /\ httpResponse.body.valid_json)
    => IF SettlementFails(httpResponse.body)
       THEN httpResponse.status \notin 200..299
       ELSE httpResponse.status = StatusOK

\* C17: when a Succeeded Payment event reaches the donation of a payment
\* without owner, ProcessWebhook returns the settlement error (it does not
\* panic), the error is recorded on the delivery's WebhookEvent row, and no
\* donation or counter has changed.
C17_MissingOwnerIsAnError ==
    \A w \in Procs :
        (/\ pc[w] = "done"
         /\ payload[w].Type = "Payment"
         /\ payload[w].Status = "Succeeded"
         /\ payment[w].id # 0
         /\ payment[w].auth_user_id = NULL
         /\ payment[w].currency \in DOMAIN treePrices)
        => /\ result[w] = "failed to process webhook"
           /\ \E k \in DOMAIN webhookEvents :
                /\ webhookEvents[k].raw_payload = payload[w]
                /\ ~webhookEvents[k].processed_ok
                /\ webhookEvents[k].processing_error # NULL
           /\ donations = pre.donations
           /\ users = pre.users

\* C18: the Donation of a settled payment with amount A >= 0 and tree price
\* P > 0 has trees_count = floor(A / P), which is 0 when A < P (A = 0
\* included), and the settlement raised the donor's total_trees by exactly
\* that trees_count and donations_count by 1.
C18_TreesAreFloorOfAmountByPrice ==
    /\ \A j \in DOMAIN donations :
        LET A == payments[donations[j].payment_id].amount_minor
            P == treePrices[payments[donations[j].payment_id].currency]
            t == donations[j].trees_count
        IN  (A >= 0 /\ P > 0) =>
                /\ t >= 0
                /\ t * P <= A
                /\ A < (t + 1) * P
                /\ A < P => t = 0
    /\ \A k \in DOMAIN incLog :
        /\ incLog[k].count_delta = 1
        /\ \A j \in DonationsOfPayment(donations, incLog[k].payment_id) :
            incLog[k].trees_delta = donations[j].trees_count

\* Two settlements have completed for one donor: 9500 at price 1900 gave 5
\* trees and a charge of amount 0 gave a Donation of 0 trees.
C18_Witness ==
    \E j1, j2 \in DOMAIN donations :
        /\ IncsOfPayment(donations[j1].payment_id) # {}
        /\ IncsOfPayment(donations[j2].payment_id) # {}
        /\ payments[donations[j1].payment_id].amount_minor = SeedAmountMinor
        /\ payments[donations[j1].payment_id].currency = "RUB"
        /\ donations[j1].trees_count = 5
        /\ payments[donations[j2].payment_id].amount_minor = 0
        /\ donations[j2].trees_count = 0
        /\ donations[j1].auth_user_id = donations[j2].auth_user_id
        /\ users[donations[j1].auth_user_id]
                = [total_trees |-> 5, donations_count |-> 2]

\* C19: once a webhook settlement has completed successfully, the donor
\* holds every catalog achievement whose threshold is non-null and at most
\* the donor's total_trees.
C19_SettlementAwardsAchievements ==
    \A w \in Procs :
        (/\ pc[w] = "done"
         /\ result[w] = "ok"
         /\ IsSettlementEvent(payload[w])
         /\ payment[w].id # 0)
        => \A i \in DOMAIN Achievements :
            (/\ Achievements[i].has_threshold
             /\ Achievements[i].threshold_trees
                    <= users[payment[w].auth_user_id].total_trees)
            => <<payment[w].auth_user_id, Achievements[i].code>>
                    \in userAchievements

\* C20: when CheckAndAwardTreeBasedAchievements(user, n) has returned nil,
\* the user holds every catalog achievement whose threshold is non-null and
\* at most n, and the call granted none whose threshold is null or above n.
C20_AwardsExactlyQualifying ==
    \A a \in Procs :
        (/\ ach[a].pc = "done"
         /\ ach[a].op = "CheckAndAward"
         /\ ach[a].result = "ok") =>
            \A i \in DOMAIN Achievements :
                LET r == Achievements[i]
                    qualifies == r.has_threshold
                                 /\ r.threshold_trees <= ach[a].total_trees
                IN  /\ qualifies => <<ach[a].user, r.code>> \in userAchievements
                    /\ r.code \in ach[a].granted => qualifies

\* A call with n = 10 has returned nil after granting the achievements of
\* thresholds 1 and 10; the user holds neither the one of threshold 100 nor
\* the one without threshold.
C20_Witness ==
    \E a \in Procs :
        /\ ach[a].pc = "done"
        /\ ach[a].op = "CheckAndAward"
        /\ ach[a].result = "ok"
        /\ ach[a].total_trees = 10
        /\ ach[a].granted = {"first_tree", "tree_planter"}
        /\ <<ach[a].user, "forest_guardian">> \notin userAchievements
        /\ <<ach[a].user, "volunteer">> \notin userAchievements

\* C21: under every interleaving of CheckAndAwardTreeBasedAchievements and
\* AwardAchievement calls no (user, achievement) row is inserted twice, no
\* step removes a row of user_achievements, and a call of
\* CheckAndAwardTreeBasedAchievements made after one for the same user with
\* the same or a smaller tree count had returned nil returns nil too.
C21_GrantingIsIdempotentAndMonotone ==
    /\ [](\A r \in BagToSet(awardLog) : CopiesIn(r, awardLog) = 1)
    /\ [][userAchievements \subseteq userAchievements']_vars
    /\ [](\A a \in Procs :
            (ach[a].pc = "done" /\ ach[a].repeat) => ach[a].result = "ok")

\* C22: a Succeeded SubscriptionCharge admitted for an existing subscription
\* adds exactly one payment, whose external id is the transaction id, whose
\* subscription and owner are the subscription's, whose status is succeeded
\* and whose amount (in minor units) and currency are the payload's; for a
\* subscription that does not exist the settlement fails with "subscription
\* not found" and no payment is added.
C22_ChargeCreatesPayment ==
    \A w \in Procs :
        (/\ pc[w] = "done"
         /\ payload[w].Type = "SubscriptionCharge"
         /\ payload[w].Status = "Succeeded"
         /\ \A k \in DOMAIN pre.webhookEvents :
                pre.webhookEvents[k].event_idempotency # TxOf(w))
        => IF FirstSubscriptionId(payload[w].SubscriptionId) = 0
           THEN /\ err[w] = "subscription not found"
                /\ result[w] # "ok"
                /\ payments = pre.payments
           ELSE /\ Len(payments) = Len(pre.payments) + 1
                /\ SubSeq(payments, 1, Len(pre.payments)) = pre.payments
                /\ LET new == payments[Len(payments)]
                       sid == FirstSubscriptionId(payload[w].SubscriptionId)
                   IN /\ new.provider_payment_id = TxOf(w)
                      /\ new.subscription_id = sid
                      /\ new.auth_user_id = subscriptions[sid].auth_user_id
                      /\ new.status = PaymentStatusSucceeded
                      /\ new.amount_minor = payload[w].Amount * 100
                      /\ new.currency = payload[w].Currency

\* The delivery w has ended, is the first one of the Succeeded Payment event
\* of the intent i, and the intent was created before it arrived.
SettlesIntent(w, i) ==
    /\ pc[w] = "done"
    /\ payload[w].Type = "Payment"
    /\ payload[w].Status = "Succeeded"
    /\ TxOf(w) = intents[i].transaction_id
    /\ intents[i].payment_id \in DOMAIN pre.payments
    /\ \A k \in DOMAIN pre.webhookEvents :
            pre.webhookEvents[k].event_idempotency # TxOf(w)

\* C23: when the Succeeded Payment event of an intent is delivered, the
\* delivery returns success and the intent's payment has a Donation whose
\* project is the project id the intent was created with, or null when the
\* intent had no project id or one that is not a UUID.
C23_DonationCarriesProject ==
    \A w \in Procs : \A i \in DOMAIN intents :
        SettlesIntent(w, i) =>
            /\ result[w] = "ok"
            /\ \E j \in DOMAIN donations :
                /\ donations[j].payment_id = intents[i].payment_id
                /\ donations[j].project_id
                        = ParseProjectID(intents[i].project_id)

\* C24: when the Succeeded Payment event of an intent created with a
\* referral_user_id R is delivered, the intent's payment has a Donation whose
\* referral_user_id is R, and GetReferralStats(R) counts it.
C24_DonationCarriesReferral ==
    \A w \in Procs : \A i \in DOMAIN intents :
        (SettlesIntent(w, i) /\ intents[i].referral_user_id # NULL) =>
            /\ \E j \in DOMAIN donations :
                /\ donations[j].payment_id = intents[i].payment_id
                /\ donations[j].referral_user_id
                        = intents[i].referral_user_id
            /\ GetReferralStats(intents[i].referral_user_id).TotalReferrals
                    >= 1

\* What a query value says, read as a decimal numeral: an optional sign and
\* at least one digit.
IsNumeral(str) ==
    LET ds == IF str # <<>> /\ Head(str) \in {"-", "+"} THEN Tail(str) ELSE str
    IN  ds # <<>> /\ \A i \in DOMAIN ds : ds[i] \in Digits

\* The digits of a numeral without sign and leading zeros
Magnitude(str) ==
    StripZeros(IF Head(str) \in {"-", "+"} THEN Tail(str) ELSE str)

IsNegative(str) == Head(str) = "-" /\ Magnitude(str) # <<>>

\* The numeral is at least, or more than, a number of at most three digits.
NumeralAtLeast(str, k) ==
    /\ ~IsNegative(str)
    /\ Len(Magnitude(str)) > 3 \/ DecimalValue(Magnitude(str)) >= k

\* The numeral denotes a value an int holds.
FitsInt(str) == Len(Magnitude(str)) < MaxIntDigits

\* The value of a numeral that fits an int (here: a TLC integer)
NumeralValue(str) ==
    IF IsNegative(str) THEN 0 - DecimalValue(Magnitude(str))
    ELSE DecimalValue(Magnitude(str))

\* C25 as stated: Limit is within 1..100 and Offset is not negative; an
\* absent, non-numeric or < 1 limit gives 20, a limit above 100 gives 100,
\* any other limit is returned unchanged; an absent, non-numeric or negative
\* offset gives 0, any other offset is returned unchanged (so is not 0 when
\* the numeral is at least 1).
C25_PaginationAsStated ==
    pagination.pc = "returned" =>
        LET l == pagination.limit
            o == pagination.offset
        IN  /\ pagination.Limit \in 1..MaxLimit
            /\ pagination.Offset >= 0
            /\ IF ~pagination.has_limit \/ ~IsNumeral(l)
                    \/ ~NumeralAtLeast(l, 1)
               THEN pagination.Limit = DefaultLimit
               ELSE IF NumeralAtLeast(l, MaxLimit + 1)
               THEN pagination.Limit = MaxLimit
               ELSE pagination.Limit = NumeralValue(l)
            /\ IF ~pagination.has_offset \/ ~IsNumeral(o) \/ IsNegative(o)
               THEN pagination.Offset = 0
               ELSE IF FitsInt(o)
               THEN pagination.Offset = NumeralValue(o)
               ELSE pagination.Offset >= 1

\* C25, amended: the same, with a numeral whose value no int holds counted
\* as non-numeric (limit 20, offset 0).
C25_Pagination ==
    pagination.pc = "returned" =>
        LET l == pagination.limit
            o == pagination.offset
        IN  /\ pagination.Limit \in 1..MaxLimit
            /\ pagination.Offset >= 0
            /\ IF ~pagination.has_limit \/ ~IsNumeral(l) \/ ~FitsInt(l)
                    \/ ~NumeralAtLeast(l, 1)
               THEN pagination.Limit = DefaultLimit
               ELSE IF NumeralAtLeast(l, MaxLimit + 1)
               THEN pagination.Limit = MaxLimit
               ELSE pagination.Limit = NumeralValue(l)
            /\ IF ~pagination.has_offset \/ ~IsNumeral(o) \/ ~FitsInt(o)
                    \/ IsNegative(o)
               THEN pagination.Offset = 0
               ELSE pagination.Offset = NumeralValue(o)

\* limit=101 was cut to 100 and offset=11 returned as it is.
C25_Witness ==
    /\ pagination.pc = "returned"
    /\ pagination.has_limit /\ pagination.limit = <<"1", "0", "1">>
    /\ pagination.has_offset /\ pagination.offset = <<"1", "1">>
    /\ pagination.Limit = MaxLimit
    /\ pagination.Offset = 11

\* The first delivery of the event of call w failed because a row was
\* missing, and the failure was logged.
FailedForMissingRow(w) ==
    \E k \in DOMAIN pre.webhookEvents :
        /\ pre.webhookEvents[k].event_idempotency = TxOf(w)
        /\ pre.webhookEvents[k].raw_payload = payload[w]
        /\ ~pre.webhookEvents[k].processed_ok
        /\ pre.webhookEvents[k].processing_error
                \in {"payment not found", "subscription not found",
                     "tree price not found"}

\* C26: when a Succeeded event whose first delivery failed for a missing row
\* (and was logged as failed) is delivered again after the row was created
\* (the payment exists, has an owner and its currency has a tree price),
\* the redelivery leaves the payment succeeded, with one Donation and one
\* increment of the owner's counters.
C26_RetryAfterFailureSettles ==
    \A w \in Procs :
        (/\ pc[w] = "done"
         /\ IsSettlementEvent(payload[w])
         /\ FailedForMissingRow(w)
         /\ FirstPaymentId(pre.payments, TxOf(w)) # 0
         /\ pre.payments[FirstPaymentId(pre.payments, TxOf(w))].auth_user_id
                # NULL
         /\ pre.payments[FirstPaymentId(pre.payments, TxOf(w))].currency
                \in DOMAIN treePrices)
        => LET pid == FirstPaymentId(pre.payments, TxOf(w)) IN
            /\ result[w] = "ok"
            /\ payments[pid].status = PaymentStatusSucceeded
            /\ Cardinality(DonationsOfPayment(donations, pid)) = 1
            /\ Cardinality(IncsOfPayment(pid)) = 1

\* C27: no step removes a payment row, and every step leaves the status of
\* each payment as it is or moves it from pending to succeeded or from
\* succeeded to refunded.
C27_StatusMovesForward ==
    [][/\ Len(payments') >= Len(payments)
       /\ \A i \in DOMAIN payments :
            \/ payments'[i].status = payments[i].status
            \/ /\ payments[i].status = PaymentStatusPending
               /\ payments'[i].status = PaymentStatusSucceeded
            \/ /\ payments[i].status = PaymentStatusSucceeded
               /\ payments'[i].status = PaymentStatusRefunded]_vars

\* C28: in every state each Donation row refers to a payment that exists and
\* whose status is succeeded or refunded.
C28_DonationsOfSettledPayments ==
    \A j \in DOMAIN donations :
        /\ donations[j].payment_id \in DOMAIN payments
        /\ payments[donations[j].payment_id].status
                \in {PaymentStatusSucceeded, PaymentStatusRefunded}

\* A settlement of this behaviour has created a Donation, and a refund has
\* since been applied to its payment.
C28_Witness ==
    \E k \in DOMAIN incLog :
        /\ DonationsOfPayment(donations, incLog[k].payment_id) # {}
        /\ payments[incLog[k].payment_id].status = PaymentStatusRefunded

\* A row of sessions that is revoked, deleted as expired, or whose expiry
\* time has come at the instant t
Ended(row, t) == row.revoked \/ row.deleted \/ row.expires_at <= t

\* C29: a RequireAuth check that presents the id of a session which is
\* revoked or whose expiry time has passed answers 401 and the handler does
\* not run; a session in that condition stays in it; and Logout, the
\* revocation of a Login and that of a password reset put the sessions they
\* address (the cookie's, the user's) in that condition.
C29_EndedSessionIsRejected ==
    /\ []((authLog.row # NoSession /\ Ended(authLog.row, authLog.at)) =>
            (authLog.status = StatusUnauthorized /\ ~authLog.handler))
    /\ [][\A i \in DOMAIN sessions :
            Ended(sessions[i], now) => Ended(sessions'[i], now')]_vars
    /\ [][\A p \in Procs :
            /\ (authCalls[p].pc = "revoke" /\ authCalls'[p].pc = "idle") =>
                    Ended(sessions'[authCalls[p].cookie], now')
            /\ \/ authCalls[p].pc = "idle" /\ authCalls'[p].pc = "create"
               \/ authCalls[p].pc = "resetRevoke"
                    /\ authCalls'[p].pc = "idle"
               => \A i \in DOMAIN sessions :
                    sessions[i].auth_user_id
                        = (IF authCalls[p].pc = "idle"
                           THEN authCalls'[p].user ELSE authCalls[p].user)
                    => Ended(sessions'[i], now')]_vars

\* A check presented a session that had been revoked before its expiry and
\* was answered 401.
C29_Witness ==
    /\ authLog.row # NoSession
    /\ authLog.row.revoked
    /\ authLog.row.expires_at > authLog.at
    /\ authLog.status = StatusUnauthorized
    /\ ~authLog.handler

\* C30: for every token at most one verification call succeeds, concurrent
\* calls included, and a call that succeeds found the token before its
\* expiry time.
C30_TokensAreSingleUse ==
    /\ [](\A t \in BagToSet(tokenLog) : CopiesIn(t, tokenLog) <= 1)
    /\ [][\A p \in Procs :
            (tokenCalls[p].pc = "mark" /\ tokenCalls'[p].pc = "idle") =>
                tokens[tokenCalls[p].token].expires_at
                    > tokenCalls[p].started]_vars

====
